---- MODULE Spec2Model ----
(***************************************************************************)
(* Open-addressing hash tables of cstd: CHashMap (src/src/CHashMap.c) and  *)
(* CHashSet (src/src/CHashSet.c).  One table is modelled at a time; `kind` *)
(* says whether it was created by CHashMap_new or by CHashSet_new.         *)
(*                                                                         *)
(* A key handle is modelled by the integer it points to (cmp compares the  *)
(* pointees).  entries is the slot array, indexed 0..capacity-1.           *)
(***************************************************************************)
EXTENDS Integers, FiniteSets, Sequences, TLC

\* ---------------------------------------------------------------- bounds
MaxKey == 3
MaxVal == 2
MaxInitCap == 2
MaxCap == 3
\* deleted_count is only ever reset by a resize or a clear: removes are
\* issued while it is below MaxDeleted.
MaxDeleted == 2
\* Handles (pointer identities) are numbered 1..MaxHandle as they are handed
\* to the table, in the specifications that track them.
MaxHandle == 5
\* A queue or a stack holds at most MaxLen elements, drawn from 1..MaxElem.
MaxLen == 3
MaxElem == 3
MaxHeapInitCap == 2
MaxHeapLen == 5
MaxGrowCap == 4
\* A vector starts with room for 0..MaxVecInitCap elements, holds at most
\* MaxVecLen and is asked to reserve at most MaxReserve.
MaxVecInitCap == 2
MaxVecLen == 3
MaxReserve == 4

Keys == 1..MaxKey
Values == 1..MaxVal
InitCaps == 1..MaxInitCap
Handles == 1..MaxHandle

\* ------------------------------------------------------ program constants
\* A slot's key pointer: NULL = Empty, DELETED = Tombstone, other = Occupied.
NULL == 0
DELETED == 0 - 1
\* LOAD_FACTOR_THRESHOLD 0.75 as the fraction ThresholdNum / ThresholdDen.
ThresholdNum == 3
ThresholdDen == 4

\* kind, entries, size, capacity, deleted_count: the table (deleted_count is
\* a field of the Set only and stays 0 for a Map).
\* pc: "run" while the caller can issue calls; "hung" once a call loops for
\* ever; "SIGFPE" / "SIGSEGV" once a call has killed the process; "freed"
\* once the table has been freed.
\* last: the last call and what it returned.
\* lastval: history of the calls (not program state): per key the value
\* its last insert wrote (NoVal: never inserted, or cleared since; Removed:
\* removed since; Rewritten: written again by update since).
\* nextHandle, destroyed: the identities of the key and value pointers given
\* to the table and the destructor calls made on them.  nextHandle is the
\* next unused identity, or 0 when identities are not tracked (every pointer
\* then has identity 0 and destructor calls are not recorded); destroyed[h]
\* counts the destructor calls on h (2 stands for "more than once").
\* twin: a CHashSet driven beside the map (only where map and set are
\* compared).  queue, stack, heap, vector: a CQueue, a CStack, a CHeap and
\* a CVector; ref: the
\* elements given to that container and not yet taken out, in the order
\* they were given.
VARIABLES kind, entries, size, capacity, deleted_count, pc, last, lastval,
          nextHandle, destroyed, twin, queue, stack, heap, vector, ref

vars == <<kind, entries, size, capacity, deleted_count, pc, last, lastval,
          nextHandle, destroyed, twin, queue, stack, heap, vector, ref>>
others == <<twin, queue, stack, heap, vector, ref>>
table == <<entries, size, capacity, deleted_count>>
own == <<nextHandle, destroyed>>

NoVal == NULL
Removed == DELETED
Rewritten == 0 - 2

\* ------------------------------------------------------ caller's callbacks
\* Hash callback of the caller (any deterministic function of the pointee):
\* here the square of the integer key, which makes keys share a home slot at
\* every capacity of the model.
Hash(k) == k * k
\* CompareTo callback of the caller (ccompare_integer).
Cmp(a, b) == (IF a > b THEN 1 ELSE 0) - (IF a < b THEN 1 ELSE 0)

\* A slot: key / value are what the two pointers point to (or the NULL /
\* DELETED marker), kh / vh the identities of the pointers themselves.
EmptySlot == [key |-> NULL, value |-> NULL, kh |-> 0, vh |-> 0]
IsOccupied(e) == e.key # NULL /\ e.key # DELETED

\* __ceil(capacity * 1.5): the integer part of 3c/2, plus one when 3c/2 has
\* a fractional part.
MutNewCapacityFloor(c) == (3 * c) \div 2
NewCapacity(c) ==
    LET int_part == (3 * c) \div 2
    IN  IF 3 * c > 2 * int_part THEN int_part + 1 ELSE int_part

\* CHashMap_load_factor(map) > LOAD_FACTOR_THRESHOLD.  size / capacity is a
\* double division: with capacity 0 (and size 0) it is NaN, and NaN > 0.75
\* is false.
MutOverThresholdWhenOverfull(sz, cap) == cap > 0 /\ sz > cap
OverThreshold(sz, cap) == cap > 0 /\ ThresholdDen * sz > ThresholdNum * cap

\* ------------------------------------------------------------- probe loops
\* The probe loop of insert / add, started at index with n slots already
\* examined: passes Occupied slots whose key differs, stops on an equal
\* key (found), on Empty and on Tombstone.  The table does not change while
\* the loop runs, so a loop that has examined every slot without stopping
\* never stops (hang).
RECURSIVE MutInsertScanPassesTombstones(_, _, _, _, _)
MutInsertScanPassesTombstones(es, cap, key, index, n) ==
    IF n >= cap THEN [hang |-> TRUE, found |-> FALSE, index |-> index, probes |-> n]
    ELSE IF es[index].key # NULL
         THEN IF IsOccupied(es[index]) /\ Cmp(es[index].key, key) = 0
              THEN [hang |-> FALSE, found |-> TRUE, index |-> index, probes |-> n + 1]
              ELSE MutInsertScanPassesTombstones(es, cap, key, (index + 1) % cap, n + 1)
         ELSE [hang |-> FALSE, found |-> FALSE, index |-> index, probes |-> n + 1]
RECURSIVE InsertScan(_, _, _, _, _)
InsertScan(es, cap, key, index, n) ==
    IF n >= cap THEN [hang |-> TRUE, found |-> FALSE, index |-> index, probes |-> n]
    ELSE IF IsOccupied(es[index])
         THEN IF Cmp(es[index].key, key) = 0
              THEN [hang |-> FALSE, found |-> TRUE, index |-> index, probes |-> n + 1]
              ELSE InsertScan(es, cap, key, (index + 1) % cap, n + 1)
         ELSE [hang |-> FALSE, found |-> FALSE, index |-> index, probes |-> n + 1]

\* The probe loop of get / contains / remove / update: runs while the slot's
\* key is not NULL, passes Tombstones and Occupied slots whose key differs,
\* stops on an equal key (found) and on Empty.
RECURSIVE LookupScan(_, _, _, _, _)
LookupScan(es, cap, key, index, n) ==
    IF n >= cap THEN [hang |-> TRUE, found |-> FALSE, index |-> index, probes |-> n]
    ELSE IF es[index].key # NULL
         THEN IF es[index].key # DELETED /\ Cmp(es[index].key, key) = 0
              THEN [hang |-> FALSE, found |-> TRUE, index |-> index, probes |-> n + 1]
              ELSE LookupScan(es, cap, key, (index + 1) % cap, n + 1)
         ELSE [hang |-> FALSE, found |-> FALSE, index |-> index, probes |-> n + 1]

\* ------------------------------------------------------------------ resize
\* Inner loop of resize: the first slot of the new array, in probe order
\* from new_index, whose key is NULL.
RECURSIVE FirstNull(_, _, _)
FirstNull(new_entries, new_capacity, new_index) ==
    IF new_entries[new_index].key # NULL
    THEN FirstNull(new_entries, new_capacity, (new_index + 1) % new_capacity)
    ELSE new_index

\* Outer loop of resize from old slot i on: every Occupied old slot is
\* copied to the first NULL slot on its probe path in the new array; Empty
\* and Tombstone slots are not carried over.
RECURSIVE MutRehashNoProbe(_, _, _, _, _)
RECURSIVE MutRehashCarriesDeleted(_, _, _, _, _)
RECURSIVE Rehash(_, _, _, _, _)
MutRehashCarriesDeleted(old_entries, old_capacity, new_entries, new_capacity, i) ==
    IF i >= old_capacity THEN new_entries
    ELSE IF old_entries[i].key # NULL
         THEN MutRehashCarriesDeleted(old_entries, old_capacity,
                     [new_entries EXCEPT
                        ![FirstNull(new_entries, new_capacity,
                                    (IF old_entries[i].key = DELETED THEN i
                                     ELSE Hash(old_entries[i].key)) % new_capacity)]
                            = old_entries[i]],
                     new_capacity, i + 1)
         ELSE MutRehashCarriesDeleted(old_entries, old_capacity, new_entries,
                                      new_capacity, i + 1)
MutRehashNoProbe(old_entries, old_capacity, new_entries, new_capacity, i) ==
    IF i >= old_capacity THEN new_entries
    ELSE IF IsOccupied(old_entries[i])
         THEN MutRehashNoProbe(old_entries, old_capacity,
                     [new_entries EXCEPT
                        ![Hash(old_entries[i].key) % new_capacity] = old_entries[i]],
                     new_capacity, i + 1)
         ELSE MutRehashNoProbe(old_entries, old_capacity, new_entries, new_capacity, i + 1)
Rehash(old_entries, old_capacity, new_entries, new_capacity, i) ==
    IF i >= old_capacity THEN new_entries
    ELSE IF IsOccupied(old_entries[i])
         THEN Rehash(old_entries, old_capacity,
                     [new_entries EXCEPT
                        ![FirstNull(new_entries, new_capacity,
                                    Hash(old_entries[i].key) % new_capacity)]
                            = old_entries[i]],
                     new_capacity, i + 1)
         ELSE Rehash(old_entries, old_capacity, new_entries, new_capacity, i + 1)

NumOccupied(es, cap) == Cardinality({i \in 0..(cap - 1) : IsOccupied(es[i])})

\* CHashMap_resize: the table fields it leaves behind and its return code.
\* calloc failing returns before anything is touched; size is not written.
MapResize(es, sz, cap, allocOk) ==
    LET new_capacity == NewCapacity(cap)
        new_entries == [i \in 0..(new_capacity - 1) |-> EmptySlot]
    IN  IF ~allocOk
        THEN [ret |-> "ALLOC_FAILURE", entries |-> es, size |-> sz,
              capacity |-> cap]
        ELSE [ret |-> "SUCCESS",
              entries |-> Rehash(es, cap, new_entries, new_capacity, 0),
              size |-> sz, capacity |-> new_capacity]

\* CHashSet_resize: as CHashMap_resize, but size is reset to 0 and counted
\* up again once per entry moved, and deleted_count is reset to 0.
MutSetResizeResetsFirst(es, sz, cap, dc, allocOk) ==
    LET new_capacity == NewCapacity(cap)
        new_entries == [i \in 0..(new_capacity - 1) |-> EmptySlot]
    IN  IF ~allocOk
        THEN [ret |-> "ALLOC_FAILURE", entries |-> es, size |-> 0,
              capacity |-> cap, deleted_count |-> 0]
        ELSE [ret |-> "SUCCESS",
              entries |-> Rehash(es, cap, new_entries, new_capacity, 0),
              size |-> NumOccupied(es, cap),
              capacity |-> new_capacity, deleted_count |-> 0]
SetResize(es, sz, cap, dc, allocOk) ==
    LET new_capacity == NewCapacity(cap)
        new_entries == [i \in 0..(new_capacity - 1) |-> EmptySlot]
    IN  IF ~allocOk
        THEN [ret |-> "ALLOC_FAILURE", entries |-> es, size |-> sz,
              capacity |-> cap, deleted_count |-> dc]
        ELSE [ret |-> "SUCCESS",
              entries |-> Rehash(es, cap, new_entries, new_capacity, 0),
              size |-> NumOccupied(es, cap),
              capacity |-> new_capacity, deleted_count |-> 0]

\* ---------------------------------------------------------- pure lookups
\* CHashMap_get on a table (es, cap): its outcome, the value handed out and
\* the number of slots examined.  hash % capacity with capacity 0 is a
\* division by zero (outcome "UB").
Outcome(ret, value, probes) == [ret |-> ret, value |-> value, probes |-> probes]

Lookup(es, cap, key) ==
    IF cap = 0 THEN Outcome("UB", NULL, 0)
    ELSE LET s == LookupScan(es, cap, key, Hash(key) % cap, 0)
         IN  IF s.hang THEN Outcome("HANG", NULL, s.probes)
             ELSE IF s.found THEN Outcome("SUCCESS", es[s.index].value, s.probes)
             ELSE Outcome("NOT_FOUND", NULL, s.probes)

\* What a division by zero does to the process: the divide traps, or it
\* yields some index and the read of the freed (NULL) slot array faults.
DivByZeroOutcomes == {"SIGFPE", "SIGSEGV"}

\* What reading a field through a NULL table pointer does to the process.
NullDerefOutcomes == {"SIGSEGV"}

\* The table argument of a call: the table, or a NULL pointer.  The free
\* functions take the address of the caller's table pointer: "null" is a
\* NULL address, "nullref" the address of a pointer that is NULL.
TablePtrs == {"table", "null"}
TableRefs == {"table", "null", "nullref"}

\* The record of a call.  nullarg: the call was given a NULL table, key or
\* value.
Call(op, key, value, ret, out, resized, szPre, szPost, probes) ==
    [op |-> op, key |-> key, value |-> value, ret |-> ret, out |-> out,
     resized |-> resized, szPre |-> szPre, szPost |-> szPost, probes |-> probes,
     nullarg |-> FALSE]

NullCall(op, key, value, ret) ==
    [Call(op, key, value, ret, NULL, FALSE, size, size, 0) EXCEPT !.nullarg = TRUE]

\* ------------------------------------------------- the other containers
\* A table of the given capacity right after CHashSet_init.
NewSet(cap) ==
    [entries |-> [i \in 0..(cap - 1) |-> EmptySlot], size |-> 0,
     capacity |-> cap, deleted_count |-> 0, pc |-> "run", ret |-> "SUCCESS"]

\* Nodes live at the addresses 1 .. MaxLen; malloc hands out the lowest
\* address not in use (which address it is makes no difference to the code).
NodeIds == 1..MaxLen
FreeNode == [value |-> NULL, next |-> NULL, used |-> FALSE]
NoNodes == [n \in NodeIds |-> FreeNode]
Malloc(nodes) == CHOOSE n \in NodeIds :
                    ~nodes[n].used /\ \A m \in NodeIds : ~nodes[m].used => n <= m

\* CLinkedList_init of a singly linked list (as CQueue_new asks for): shead
\* and tail NULL, size 0.
NewList == [shead |-> NULL, tail |-> NULL, size |-> 0, nodes |-> NoNodes]
\* CStack_init.
NewStack == [top |-> NULL, size |-> 0, nodes |-> NoNodes]
\* CHeap_init: data is an array of initial_capacity slots that holds nothing
\* yet (0 stands for a slot never written); freed tells that the block data
\* points to has been given back to the allocator.
NewHeap(initial_capacity) ==
    [data |-> [i \in 0..(initial_capacity - 1) |-> NULL], size |-> 0,
     capacity |-> initial_capacity, freed |-> FALSE]
\* CVector_init: data is an array of reserve_capacity slots, whatever
\* reserve_capacity is (no default is put in the place of 0); freed tells
\* that the block data points to has been given back to the allocator.
NewVector(reserve_capacity) ==
    [data |-> [i \in 0..(reserve_capacity - 1) |-> NULL], size |-> 0,
     capacity |-> reserve_capacity, freed |-> FALSE]

\* The other containers while the program only uses a hash table.
NoOthers ==
    /\ twin = NewSet(0)
    /\ queue = NewList
    /\ stack = NewStack
    /\ heap = NewHeap(0)
    /\ vector = NewVector(0)
    /\ ref = <<>>

\* ------------------------------------------------------------------- Init
\* CHashMap_new / CHashSet_new (capacity > 0): all slots Empty, size 0.
InitTable ==
    /\ kind \in {"map", "set"}
    /\ capacity \in InitCaps
    /\ entries = [i \in 0..(capacity - 1) |-> EmptySlot]
    /\ size = 0
    /\ deleted_count = 0
    /\ pc = "run"
    /\ last = Call("new", NULL, NULL, "SUCCESS", NULL, FALSE, 0, 0, 0)
    /\ lastval = [k \in Keys |-> NoVal]
    /\ destroyed = [h \in Handles |-> 0]
    /\ NoOthers

Init == InitTable /\ nextHandle = 0

SetTable(tbl) ==
    /\ entries' = tbl[1]
    /\ size' = tbl[2]
    /\ capacity' = tbl[3]
    /\ deleted_count' = tbl[4]

\* A call that returns without touching anything.
Returns(c) ==
    /\ last' = c
    /\ UNCHANGED <<kind, table, pc, own>>

\* A call that divides by zero: the process dies, the table is as it was.
Dies(op, key, value) ==
    /\ \E o \in DivByZeroOutcomes : pc' = o
    /\ last' = Call(op, key, value, "NONE", NULL, FALSE, size, size, 0)
    /\ UNCHANGED <<kind, table, own>>

\* A call whose probe loop never ends (tbl: the table fields at that point).
Hangs(op, key, value, tbl, resized, probes) ==
    /\ pc' = "hung"
    /\ last' = Call(op, key, value, "NONE", NULL, resized, size, tbl[2], probes)
    /\ SetTable(tbl)
    /\ UNCHANGED <<kind, own>>

\* ------------------------------------------------------------- destructors
\* One call of destroyKey / destroyValue on the pointer of identity h.
Destroy(log, h) ==
    IF h = 0 THEN log
    ELSE [log EXCEPT ![h] = IF @ >= 1 THEN 2 ELSE 1]

\* The loop of clear and free from slot i on: destroyKey and destroyValue on
\* every Occupied slot (a set slot has no value: vh = 0).
RECURSIVE MutDestroyEntriesKeysOnly(_, _, _, _)
RECURSIVE DestroyEntries(_, _, _, _)
MutDestroyEntriesKeysOnly(log, es, cap, i) ==
    IF i >= cap THEN log
    ELSE IF IsOccupied(es[i])
         THEN MutDestroyEntriesKeysOnly(Destroy(log, es[i].kh), es, cap, i + 1)
         ELSE MutDestroyEntriesKeysOnly(log, es, cap, i + 1)
DestroyEntries(log, es, cap, i) ==
    IF i >= cap THEN log
    ELSE IF IsOccupied(es[i])
         THEN DestroyEntries(Destroy(Destroy(log, es[i].kh), es[i].vh),
                             es, cap, i + 1)
         ELSE DestroyEntries(log, es, cap, i + 1)

\* The i-th pointer the caller hands over in a call (i = 0, 1): a pointer
\* nothing else holds.
Fresh(i) == IF nextHandle = 0 THEN 0 ELSE nextHandle + i
\* n of the pointers handed over were stored.
Took(n) == nextHandle' = IF nextHandle = 0 THEN 0 ELSE nextHandle + n
CanHand(n) == nextHandle = 0 \/ nextHandle + n - 1 <= MaxHandle

\* Lines 167-168 of CHashMap_remove / 186-187 of CHashSet_remove: the slot
\* becomes a Tombstone.
MutMarkDeletedAsEmpty(es, index) ==
    [es EXCEPT ![index] = EmptySlot]
MarkDeleted(es, index) ==
    [es EXCEPT ![index] = [key |-> DELETED, value |-> NULL, kh |-> 0, vh |-> 0]]

\* -------------------------------------------------------------- CHashMap
\* Lines 127-136 of CHashMap_insert: an equal key keeps its slot and key and
\* gets the new value; otherwise the slot the scan stopped at is written.
MutMapStoreKeepsOld(es, s, key, value, kh, vh) ==
    IF s.found THEN es
    ELSE [es EXCEPT ![s.index] =
                      [key |-> key, value |-> value, kh |-> kh, vh |-> vh]]
MapStore(es, s, key, value, kh, vh) ==
    IF s.found THEN [es EXCEPT ![s.index].value = value, ![s.index].vh = vh]
    ELSE [es EXCEPT ![s.index] =
                      [key |-> key, value |-> value, kh |-> kh, vh |-> vh]]

CHashMap_insert(map, key, value, allocOk) ==
    /\ pc = "run" /\ kind = "map"
    /\ IF map = "null" \/ key = NULL \/ value = NULL
       THEN allocOk /\ Returns(NullCall("insert", key, value, "NULL_VAL"))
       ELSE
       LET need == OverThreshold(size, capacity)
           r == IF need THEN MapResize(entries, size, capacity, allocOk)
                ELSE [ret |-> "SUCCESS", entries |-> entries, size |-> size,
                      capacity |-> capacity]
           rtbl == <<r.entries, r.size, r.capacity, deleted_count>>
       IN  /\ need => NewCapacity(capacity) <= MaxCap
           /\ ~need => allocOk
           /\ CanHand(2)
           /\ IF r.ret # "SUCCESS"
              THEN /\ SetTable(rtbl)
                   /\ last' = Call("insert", key, value, "ALLOC_FAILURE", NULL,
                                   FALSE, size, r.size, 0)
                   /\ UNCHANGED <<kind, pc, own>>
              ELSE IF r.capacity = 0
              THEN Dies("insert", key, value)
              ELSE LET s == InsertScan(r.entries, r.capacity, key,
                                       Hash(key) % r.capacity, 0)
                   IN  IF s.hang
                       THEN Hangs("insert", key, value, rtbl, need, s.probes)
                       ELSE /\ entries' = MapStore(r.entries, s, key, value,
                                                   Fresh(1), Fresh(0))
                            /\ size' = IF s.found THEN r.size ELSE r.size + 1
                            /\ capacity' = r.capacity
                            /\ destroyed' = IF s.found
                                            THEN Destroy(destroyed,
                                                         r.entries[s.index].vh)
                                            ELSE destroyed
                            /\ Took(IF s.found THEN 1 ELSE 2)
                            /\ last' = Call("insert", key, value, "SUCCESS", NULL,
                                            need, size, r.size, s.probes)
                            /\ UNCHANGED <<kind, deleted_count, pc>>

\* With a NULL map or key CHashMap_get returns a NULL pointer, no result.
MutGetTakesValue(map, key) ==
    /\ pc = "run" /\ kind = "map"
    /\ IF map = "null" \/ key = NULL
       THEN Returns(NullCall("get", key, NULL, "NULL"))
       ELSE
       LET g == Lookup(entries, capacity, key)
           s == LookupScan(entries, capacity, key, Hash(key) % capacity, 0)
       IN  IF g.ret = "UB" THEN Dies("get", key, NULL)
           ELSE IF g.ret = "HANG"
           THEN Hangs("get", key, NULL, table, FALSE, g.probes)
           ELSE IF g.ret = "SUCCESS"
           THEN /\ entries' = [entries EXCEPT ![s.index].value = NULL]
                /\ last' = Call("get", key, NULL, g.ret, g.value, FALSE,
                                size, size, g.probes)
                /\ UNCHANGED <<kind, size, capacity, deleted_count, pc, own>>
           ELSE Returns(Call("get", key, NULL, g.ret, g.value, FALSE,
                             size, size, g.probes))
CHashMap_get(map, key) ==
    /\ pc = "run" /\ kind = "map"
    /\ IF map = "null" \/ key = NULL
       THEN Returns(NullCall("get", key, NULL, "NULL"))
       ELSE
       LET g == Lookup(entries, capacity, key)
       IN  IF g.ret = "UB" THEN Dies("get", key, NULL)
           ELSE IF g.ret = "HANG"
           THEN Hangs("get", key, NULL, table, FALSE, g.probes)
           ELSE Returns(Call("get", key, NULL, g.ret, g.value, FALSE,
                             size, size, g.probes))

CHashMap_remove(map, key) ==
    /\ pc = "run" /\ kind = "map"
    /\ IF map = "null" \/ key = NULL
       THEN Returns(NullCall("remove", key, NULL, "NULL_VAL"))
       ELSE
       IF capacity = 0 THEN Dies("remove", key, NULL)
       ELSE LET s == LookupScan(entries, capacity, key, Hash(key) % capacity, 0)
            IN  IF s.hang
                THEN Hangs("remove", key, NULL, table, FALSE, s.probes)
                ELSE IF s.found
                THEN /\ entries' = MarkDeleted(entries, s.index)
                     /\ size' = size - 1
                     /\ destroyed' = Destroy(Destroy(destroyed, entries[s.index].kh),
                                             entries[s.index].vh)
                     /\ last' = Call("remove", key, NULL, "SUCCESS", NULL, FALSE,
                                     size, size, s.probes)
                     /\ UNCHANGED <<kind, capacity, deleted_count, pc, nextHandle>>
                ELSE Returns(Call("remove", key, NULL, "NOT_FOUND", NULL, FALSE,
                                  size, size, s.probes))

\* Lines 224-227 of CHashMap_update: the slot found gets the new value.
MutUpdateStoreKeepsOld(es, index, new_value, vh) ==
    es
UpdateStore(es, index, new_value, vh) ==
    [es EXCEPT ![index].value = new_value, ![index].vh = vh]

CHashMap_update(map, key, new_value) ==
    /\ pc = "run" /\ kind = "map"
    /\ IF map = "null" \/ key = NULL \/ new_value = NULL
       THEN Returns(NullCall("update", key, new_value, "NULL_VAL"))
       ELSE
       IF capacity = 0 THEN Dies("update", key, new_value)
       ELSE LET s == LookupScan(entries, capacity, key, Hash(key) % capacity, 0)
            IN  /\ CanHand(1)
                /\ IF s.hang
                   THEN Hangs("update", key, new_value, table, FALSE, s.probes)
                   ELSE IF s.found
                   THEN /\ entries' = UpdateStore(entries, s.index, new_value, Fresh(0))
                        /\ destroyed' = Destroy(destroyed, entries[s.index].vh)
                        /\ Took(1)
                        /\ last' = Call("update", key, new_value, "SUCCESS", NULL,
                                        FALSE, size, size, s.probes)
                        /\ UNCHANGED <<kind, size, capacity, deleted_count, pc>>
                   ELSE Returns(Call("update", key, new_value, "NOT_FOUND", NULL,
                                     FALSE, size, size, s.probes))

\* CHashMap_clear: every Occupied slot is destroyed and the slot array is
\* freed; entries = NULL is the empty array.
CHashMap_clear(map) ==
    /\ pc = "run" /\ kind = "map"
    /\ IF map = "null"
       THEN Returns(NullCall("clear", NULL, NULL, "NULL_MAP"))
       ELSE /\ entries' = [i \in 0..(0 - 1) |-> EmptySlot]
            /\ capacity' = 0
            /\ size' = 0
            /\ destroyed' = DestroyEntries(destroyed, entries, capacity, 0)
            /\ last' = Call("clear", NULL, NULL, "SUCCESS", NULL, FALSE, size, 0, 0)
            /\ UNCHANGED <<kind, deleted_count, pc, nextHandle>>

\* CHashMap_free: every Occupied slot is destroyed, the slot array and the
\* table are freed and the caller's pointer is set to NULL.  The table is
\* gone afterwards: its fields are shown as those of no table.
CHashMap_free(map) ==
    /\ pc = "run" /\ kind = "map"
    /\ IF map = "null" \/ map = "nullref"
       THEN Returns(NullCall("free", NULL, NULL, "NULL_MAP"))
       ELSE /\ entries' = [i \in 0..(0 - 1) |-> EmptySlot]
            /\ capacity' = 0
            /\ size' = 0
            /\ deleted_count' = 0
            /\ destroyed' = DestroyEntries(destroyed, entries, capacity, 0)
            /\ pc' = "freed"
            /\ last' = Call("free", NULL, NULL, "SUCCESS", NULL, FALSE, size, 0, 0)
            /\ UNCHANGED <<kind, nextHandle>>

\* -------------------------------------------------------------- CHashSet
\* Lines 141-149 of CHashSet_add: an equal key changes nothing; otherwise
\* the key is written to the slot the scan stopped at.
SetStore(es, s, key, kh) ==
    IF s.found THEN es
    ELSE [es EXCEPT ![s.index] =
                      [key |-> key, value |-> NULL, kh |-> kh, vh |-> 0]]

CHashSet_add(set, key, allocOk) ==
    /\ pc = "run" /\ kind = "set"
    /\ IF set = "null"
       THEN allocOk /\ Returns(NullCall("add", key, NULL, "NULL_SET"))
       ELSE IF key = NULL
       THEN allocOk /\ Returns(NullCall("add", key, NULL, "NULL_KEY"))
       ELSE
       LET need == OverThreshold(size, capacity)
           r == IF need THEN SetResize(entries, size, capacity, deleted_count, allocOk)
                ELSE [ret |-> "SUCCESS", entries |-> entries, size |-> size,
                      capacity |-> capacity, deleted_count |-> deleted_count]
           rtbl == <<r.entries, r.size, r.capacity, r.deleted_count>>
       IN  /\ need => NewCapacity(capacity) <= MaxCap
           /\ ~need => allocOk
           /\ CanHand(1)
           /\ IF r.ret # "SUCCESS"
              THEN /\ SetTable(rtbl)
                   /\ last' = Call("add", key, NULL, "ALLOC_FAILURE", NULL,
                                   FALSE, size, r.size, 0)
                   /\ UNCHANGED <<kind, pc, own>>
              ELSE IF r.capacity = 0
              THEN Dies("add", key, NULL)
              ELSE LET s == InsertScan(r.entries, r.capacity, key,
                                       Hash(key) % r.capacity, 0)
                   IN  IF s.hang
                       THEN Hangs("add", key, NULL, rtbl, need, s.probes)
                       ELSE /\ entries' = SetStore(r.entries, s, key, Fresh(0))
                            /\ size' = IF s.found THEN r.size ELSE r.size + 1
                            /\ capacity' = r.capacity
                            /\ deleted_count' = r.deleted_count
                            /\ Took(IF s.found THEN 0 ELSE 1)
                            /\ last' = Call("add", key, NULL, "SUCCESS", NULL,
                                            need, size, r.size, s.probes)
                            /\ UNCHANGED <<kind, pc, destroyed>>

CHashSet_contains(set, key) ==
    /\ pc = "run" /\ kind = "set"
    /\ IF set = "null"
       THEN Returns(NullCall("contains", key, NULL, "NULL_SET"))
       ELSE IF key = NULL
       THEN Returns(NullCall("contains", key, NULL, "NULL_KEY"))
       ELSE
       LET g == Lookup(entries, capacity, key)
       IN  IF g.ret = "UB" THEN Dies("contains", key, NULL)
           ELSE IF g.ret = "HANG"
           THEN Hangs("contains", key, NULL, table, FALSE, g.probes)
           ELSE Returns(Call("contains", key, NULL, g.ret, NULL, FALSE,
                             size, size, g.probes))

CHashSet_remove(set, key) ==
    /\ pc = "run" /\ kind = "set"
    /\ IF set = "null"
       THEN Returns(NullCall("remove", key, NULL, "NULL_SET"))
       ELSE IF key = NULL
       THEN Returns(NullCall("remove", key, NULL, "NULL_KEY"))
       ELSE
       /\ deleted_count < MaxDeleted
       /\ IF capacity = 0 THEN Dies("remove", key, NULL)
          ELSE LET s == LookupScan(entries, capacity, key, Hash(key) % capacity, 0)
               IN  IF s.hang
                   THEN Hangs("remove", key, NULL, table, FALSE, s.probes)
                   ELSE IF s.found
                   THEN /\ entries' = MarkDeleted(entries, s.index)
                        /\ size' = size - 1
                        /\ deleted_count' = deleted_count + 1
                        /\ destroyed' = Destroy(destroyed, entries[s.index].kh)
                        /\ last' = Call("remove", key, NULL, "SUCCESS", NULL, FALSE,
                                        size, size, s.probes)
                        /\ UNCHANGED <<kind, capacity, pc, nextHandle>>
                   ELSE Returns(Call("remove", key, NULL, "NOT_FOUND", NULL, FALSE,
                                     size, size, s.probes))

CHashSet_clear(set) ==
    /\ pc = "run" /\ kind = "set"
    /\ IF set = "null"
       THEN Returns(NullCall("clear", NULL, NULL, "NULL_SET"))
       ELSE /\ entries' = [i \in 0..(0 - 1) |-> EmptySlot]
            /\ capacity' = 0
            /\ size' = 0
            /\ deleted_count' = 0
            /\ destroyed' = DestroyEntries(destroyed, entries, capacity, 0)
            /\ last' = Call("clear", NULL, NULL, "SUCCESS", NULL, FALSE, size, 0, 0)
            /\ UNCHANGED <<kind, pc, nextHandle>>

\* CHashSet_free tests only the address it is given: with the address of a
\* NULL pointer it reads (*set)->capacity through NULL.
CHashSet_free(set) ==
    /\ pc = "run" /\ kind = "set"
    /\ IF set = "null"
       THEN Returns(NullCall("free", NULL, NULL, "NULL_SET"))
       ELSE IF set = "nullref"
       THEN /\ \E o \in NullDerefOutcomes : pc' = o
            /\ last' = NullCall("free", NULL, NULL, "NONE")
            /\ UNCHANGED <<kind, table, own>>
       ELSE /\ entries' = [i \in 0..(0 - 1) |-> EmptySlot]
            /\ capacity' = 0
            /\ size' = 0
            /\ deleted_count' = 0
            /\ destroyed' = DestroyEntries(destroyed, entries, capacity, 0)
            /\ pc' = "freed"
            /\ last' = Call("free", NULL, NULL, "SUCCESS", NULL, FALSE, size, 0, 0)
            /\ UNCHANGED <<kind, nextHandle>>

\* ------------------------------------------------------------------- Next
\* The calls with table arguments from T (R for the free functions), keys
\* from K and values from V.  calloc's outcome is drawn only for the calls
\* that allocate (ok = TRUE stands for "no allocation asked for" otherwise).
CallsOver(T, R, K, V) ==
    \/ \E t \in T, k \in K, v \in V, ok \in BOOLEAN : CHashMap_insert(t, k, v, ok)
    \/ \E t \in T, k \in K : CHashMap_get(t, k)
    \/ \E t \in T, k \in K : CHashMap_remove(t, k)
    \/ \E t \in T, k \in K, v \in V : CHashMap_update(t, k, v)
    \/ \E t \in T : CHashMap_clear(t)
    \/ \E t \in R : CHashMap_free(t)
    \/ \E t \in T, k \in K, ok \in BOOLEAN : CHashSet_add(t, k, ok)
    \/ \E t \in T, k \in K : CHashSet_contains(t, k)
    \/ \E t \in T, k \in K : CHashSet_remove(t, k)
    \/ \E t \in T : CHashSet_clear(t)
    \/ \E t \in R : CHashSet_free(t)

\* The calls of a caller that passes no NULL.
Calls == CallsOver({"table"}, {"table"}, Keys, Values)

\* The program alone: no history is kept.
Next == Calls /\ UNCHANGED <<lastval, others>>

Spec == Init /\ [][Next]_vars

\* History of the writes, kept beside the program: after a successful
\* insert the value written (for add: the key itself), after a successful
\* update Rewritten, after a successful remove Removed; clear starts the
\* history afresh.
Record(h, c) ==
    IF c.ret # "SUCCESS" THEN h
    ELSE IF c.op = "insert" THEN [h EXCEPT ![c.key] = c.value]
    ELSE IF c.op = "add" THEN [h EXCEPT ![c.key] = c.key]
    ELSE IF c.op = "update" THEN [h EXCEPT ![c.key] = Rewritten]
    ELSE IF c.op = "remove" THEN [h EXCEPT ![c.key] = Removed]
    ELSE IF c.op = "clear" THEN [k \in Keys |-> NoVal]
    ELSE h

NextHist == Calls /\ lastval' = Record(lastval, last') /\ UNCHANGED others

SpecHist == Init /\ [][NextHist]_vars

\* The callers that only ever insert (add) and look up, with history.
InsCalls ==
    \/ \E k \in Keys, v \in Values, ok \in BOOLEAN : CHashMap_insert("table", k, v, ok)
    \/ \E k \in Keys : CHashMap_get("table", k)
    \/ \E k \in Keys, ok \in BOOLEAN : CHashSet_add("table", k, ok)
    \/ \E k \in Keys : CHashSet_contains("table", k)

NextIns == InsCalls /\ lastval' = Record(lastval, last') /\ UNCHANGED others

SpecIns == Init /\ [][NextIns]_vars

\* The callers that may pass NULL for the table, the key or the value.
NextArgs ==
    /\ CallsOver(TablePtrs, TableRefs, Keys \cup {NULL}, Values \cup {NULL})
    /\ UNCHANGED <<lastval, others>>

SpecArgs == Init /\ [][NextArgs]_vars

\* ---------------------------------------------------------- load factor
\* The double that (double)a / b is, for a and b of type size_t: the exact
\* quotient num / den, or NaN for 0 / 0, or infinity for a / 0 with a > 0.
DoubleDiv(a, b) ==
    IF b # 0 THEN [class |-> "finite", num |-> a, den |-> b]
    ELSE IF a = 0 THEN [class |-> "nan", num |-> 0, den |-> 0]
    ELSE [class |-> "inf", num |-> a, den |-> 0]

\* The double 0.0.
DoubleZero == [class |-> "finite", num |-> 0, den |-> 1]

\* map ? ((double)map->size / map->capacity) : 0.0, and the same for a set.
LoadFactor(t, sz, cap) ==
    IF t = "null" THEN DoubleZero ELSE DoubleDiv(sz, cap)

\* CHashMap_load_factor: the table is only read; out is the double returned.
CHashMap_load_factor(map) ==
    /\ pc = "run" /\ kind = "map"
    /\ Returns([Call("load_factor", NULL, NULL, "SUCCESS",
                     LoadFactor(map, size, capacity), FALSE, size, size, 0)
                    EXCEPT !.nullarg = (map = "null")])

CHashSet_load_factor(set) ==
    /\ pc = "run" /\ kind = "set"
    /\ Returns([Call("load_factor", NULL, NULL, "SUCCESS",
                     LoadFactor(set, size, capacity), FALSE, size, size, 0)
                    EXCEPT !.nullarg = (set = "null")])

\* A caller that fills, empties and clears a table and asks for its load
\* factor in between.
FactorCalls ==
    \/ \E k \in Keys, v \in Values, ok \in BOOLEAN : CHashMap_insert("table", k, v, ok)
    \/ \E k \in Keys : CHashMap_remove("table", k)
    \/ CHashMap_clear("table")
    \/ \E t \in TablePtrs : CHashMap_load_factor(t)
    \/ \E k \in Keys, ok \in BOOLEAN : CHashSet_add("table", k, ok)
    \/ \E k \in Keys : CHashSet_remove("table", k)
    \/ CHashSet_clear("table")
    \/ \E t \in TablePtrs : CHashSet_load_factor(t)

NextFactor == FactorCalls /\ UNCHANGED <<lastval, others>>

SpecFactor == Init /\ [][NextFactor]_vars

\* The program with the identity of every pointer handed to the table and
\* every destructor call tracked.
InitOwn == InitTable /\ nextHandle = 1

SpecOwn == InitOwn /\ [][Next]_vars

\* The scenario of a table of capacity 4 into which the keys 1, 2, 3, 4 are
\* inserted in this order, with lookups in between.
ScenarioKeys == {1, 2, 3, 4}
ScenarioCap == Cardinality(ScenarioKeys)

InitScenario ==
    /\ kind \in {"map", "set"}
    /\ capacity = ScenarioCap
    /\ entries = [i \in 0..(capacity - 1) |-> EmptySlot]
    /\ size = 0
    /\ deleted_count = 0
    /\ pc = "run"
    /\ last = Call("new", NULL, NULL, "SUCCESS", NULL, FALSE, 0, 0, 0)
    /\ lastval = [k \in Keys |-> NoVal]
    /\ destroyed = [h \in Handles |-> 0]
    /\ NoOthers
    /\ nextHandle = 0

NextScenario ==
    /\ \/ /\ size + 1 \in ScenarioKeys
          /\ \E v \in Values, ok \in BOOLEAN :
                CHashMap_insert("table", size + 1, v, ok)
       \/ \E k \in ScenarioKeys : CHashMap_get("table", k)
       \/ /\ size + 1 \in ScenarioKeys
          /\ \E ok \in BOOLEAN : CHashSet_add("table", size + 1, ok)
       \/ \E k \in ScenarioKeys : CHashSet_contains("table", k)
    /\ UNCHANGED <<lastval, others>>

SpecScenario == InitScenario /\ [][NextScenario]_vars

\* The callers that only insert (add) and look up, on tables created with the
\* capacities of the model or with the capacity of the scenario, at which a
\* load factor of exactly 3/4 exists.
InitLoad ==
    /\ kind \in {"map", "set"}
    /\ capacity \in InitCaps \cup {ScenarioCap}
    /\ entries = [i \in 0..(capacity - 1) |-> EmptySlot]
    /\ size = 0
    /\ deleted_count = 0
    /\ pc = "run"
    /\ last = Call("new", NULL, NULL, "SUCCESS", NULL, FALSE, 0, 0, 0)
    /\ lastval = [k \in Keys |-> NoVal]
    /\ destroyed = [h \in Handles |-> 0]
    /\ NoOthers
    /\ nextHandle = 0

NextLoad == InsCalls /\ UNCHANGED <<lastval, others>>

SpecLoad == InitLoad /\ [][NextLoad]_vars

\* ------------------------------------------------- a map and a set, paired
\* One call of CHashSet_add / contains / remove on the set t: the set it
\* leaves behind, with the outcome of the call in ret and what became of the
\* caller in pc.
SetStep(t, op, key, allocOk) ==
    IF op = "add"
    THEN LET need == OverThreshold(t.size, t.capacity)
             r == IF need
                  THEN SetResize(t.entries, t.size, t.capacity, t.deleted_count,
                                 allocOk)
                  ELSE [ret |-> "SUCCESS", entries |-> t.entries, size |-> t.size,
                        capacity |-> t.capacity,
                        deleted_count |-> t.deleted_count]
             s == InsertScan(r.entries, r.capacity, key, Hash(key) % r.capacity, 0)
         IN  IF r.ret # "SUCCESS"
             THEN [entries |-> r.entries, size |-> r.size, capacity |-> r.capacity,
                   deleted_count |-> r.deleted_count, pc |-> "run",
                   ret |-> "ALLOC_FAILURE"]
             ELSE IF s.hang
             THEN [entries |-> r.entries, size |-> r.size, capacity |-> r.capacity,
                   deleted_count |-> r.deleted_count, pc |-> "hung", ret |-> "NONE"]
             ELSE [entries |-> SetStore(r.entries, s, key, 0),
                   size |-> IF s.found THEN r.size ELSE r.size + 1,
                   capacity |-> r.capacity, deleted_count |-> r.deleted_count,
                   pc |-> "run", ret |-> "SUCCESS"]
    ELSE LET s == LookupScan(t.entries, t.capacity, key, Hash(key) % t.capacity, 0)
         IN  IF s.hang THEN [t EXCEPT !.pc = "hung", !.ret = "NONE"]
             ELSE IF ~s.found THEN [t EXCEPT !.ret = "NOT_FOUND"]
             ELSE IF op = "contains" THEN [t EXCEPT !.ret = "SUCCESS"]
             ELSE [t EXCEPT !.entries = MarkDeleted(t.entries, s.index),
                            !.size = t.size - 1,
                            !.deleted_count = t.deleted_count + 1,
                            !.ret = "SUCCESS"]

\* The same call made on the map and on the set; calloc succeeds or fails
\* for both alike.
PairInsert(key, value, allocOk) ==
    /\ CHashMap_insert("table", key, value, allocOk)
    /\ twin' = SetStep(twin, "add", key, allocOk)

PairGet(key) ==
    /\ CHashMap_get("table", key)
    /\ twin' = SetStep(twin, "contains", key, TRUE)

PairRemove(key) ==
    /\ twin.deleted_count < MaxDeleted
    /\ CHashMap_remove("table", key)
    /\ twin' = SetStep(twin, "remove", key, TRUE)

InitPair ==
    /\ kind = "map"
    /\ capacity \in InitCaps
    /\ entries = [i \in 0..(capacity - 1) |-> EmptySlot]
    /\ size = 0
    /\ deleted_count = 0
    /\ pc = "run"
    /\ last = Call("new", NULL, NULL, "SUCCESS", NULL, FALSE, 0, 0, 0)
    /\ lastval = [k \in Keys |-> NoVal]
    /\ destroyed = [h \in Handles |-> 0]
    /\ nextHandle = 0
    /\ twin = NewSet(capacity)
    /\ queue = NewList
    /\ stack = NewStack
    /\ heap = NewHeap(0)
    /\ vector = NewVector(0)
    /\ ref = <<>>

NextPair ==
    /\ \/ \E k \in Keys, v \in Values, ok \in BOOLEAN : PairInsert(k, v, ok)
       \/ \E k \in Keys : PairGet(k)
       \/ \E k \in Keys : PairRemove(k)
    /\ UNCHANGED <<lastval, queue, stack, heap, vector, ref>>

SpecPair == InitPair /\ [][NextPair]_vars

\* ---------------------------------------------------------------- resize
\* CHashMap_resize / CHashSet_resize as a step of its own, on tables of up
\* to MaxGrowCap slots: what the call at the head of insert / add does once
\* the load factor is over the threshold, whatever the table holds.
CHashMap_resize(allocOk) ==
    /\ pc = "run" /\ kind = "map"
    /\ capacity <= MaxGrowCap
    /\ LET r == MapResize(entries, size, capacity, allocOk)
       IN  /\ SetTable(<<r.entries, r.size, r.capacity, deleted_count>>)
           /\ last' = Call("resize", NULL, NULL, r.ret, NULL, r.ret = "SUCCESS",
                           size, r.size, 0)
           /\ UNCHANGED <<kind, pc, own>>

CHashSet_resize(allocOk) ==
    /\ pc = "run" /\ kind = "set"
    /\ capacity <= MaxGrowCap
    /\ LET r == SetResize(entries, size, capacity, deleted_count, allocOk)
       IN  /\ SetTable(<<r.entries, r.size, r.capacity, r.deleted_count>>)
           /\ last' = Call("resize", NULL, NULL, r.ret, NULL, r.ret = "SUCCESS",
                           size, r.size, 0)
           /\ UNCHANGED <<kind, pc, own>>

NextGrow ==
    /\ \/ InsCalls
       \/ CHashMap_clear("table")
       \/ CHashSet_clear("table")
       \/ \E ok \in BOOLEAN : CHashMap_resize(ok)
       \/ \E ok \in BOOLEAN : CHashSet_resize(ok)
    /\ UNCHANGED <<lastval, others>>

SpecGrow == InitLoad /\ [][NextGrow]_vars

\* ----------------------------------------------- CLinkedList, CQueue, CStack
\* The hash-table variables while the program only uses another container.
hashvars == <<kind, entries, size, capacity, deleted_count, lastval,
              nextHandle, destroyed, twin>>

NoTable ==
    /\ kind = "none"
    /\ capacity = 0
    /\ entries = [i \in 0..(0 - 1) |-> EmptySlot]
    /\ size = 0
    /\ deleted_count = 0
    /\ lastval = [k \in Keys |-> NoVal]
    /\ destroyed = [h \in Handles |-> 0]
    /\ nextHandle = 0
    /\ twin = NewSet(0)
    /\ pc = "run"
    /\ last = Call("new", NULL, NULL, "SUCCESS", NULL, FALSE, 0, 0, 0)

Elems == 1..MaxElem

\* The node reached from node n by following next i times.
RECURSIVE Nth(_, _, _)
Nth(nodes, n, i) == IF i = 0 THEN n ELSE Nth(nodes, nodes[n].next, i - 1)

\* The loop of CLinkedList_add on a singly linked list: the node whose next
\* is NULL, from node current on.
RECURSIVE LastNode(_, _)
LastNode(nodes, current) ==
    IF nodes[current].next # NULL THEN LastNode(nodes, nodes[current].next)
    ELSE current

\* CLinkedList_add, singly linked (tail is NULL): the new node is linked
\* behind the last node, or becomes shead in an empty list.
MutListAddAtHead(l, element, allocOk) ==
    IF ~allocOk THEN [ret |-> "ALLOC_FAILURE", list |-> l]
    ELSE LET new_node == Malloc(l.nodes)
             linked == [l.nodes EXCEPT ![new_node] =
                           [value |-> element, next |-> l.shead, used |-> TRUE]]
         IN  [ret |-> "SUCCESS",
              list |-> [l EXCEPT !.nodes = linked, !.shead = new_node,
                                 !.size = l.size + 1]]
ListAdd(l, element, allocOk) ==
    IF ~allocOk THEN [ret |-> "ALLOC_FAILURE", list |-> l]
    ELSE LET new_node == Malloc(l.nodes)
             fresh == [l.nodes EXCEPT ![new_node] =
                          [value |-> element, next |-> NULL, used |-> TRUE]]
         IN  [ret |-> "SUCCESS",
              list |-> IF l.shead # NULL
                       THEN [l EXCEPT !.nodes =
                                        [fresh EXCEPT ![LastNode(l.nodes, l.shead)].next
                                                          = new_node],
                                      !.size = l.size + 1]
                       ELSE [l EXCEPT !.nodes = fresh, !.shead = new_node,
                                      !.size = l.size + 1]]

\* CLinkedList_get, singly linked.
ListGet(l, index) ==
    IF index >= l.size THEN [ret |-> "INDEX_OUT_OF_BOUNDS", value |-> NULL]
    ELSE [ret |-> "SUCCESS", value |-> l.nodes[Nth(l.nodes, l.shead, index)].value]

\* CLinkedList_remove, singly linked: the node at index is unlinked and
\* freed; the element it held is not destroyed.
ListRemove(l, index) ==
    IF index >= l.size THEN [ret |-> "INDEX_OUT_OF_BOUNDS", list |-> l]
    ELSE LET current == Nth(l.nodes, l.shead, index)
             after == l.nodes[current].next
             unlinked == IF index > 0
                         THEN [l.nodes EXCEPT
                                 ![Nth(l.nodes, l.shead, index - 1)].next = after]
                         ELSE l.nodes
         IN  [ret |-> "SUCCESS",
              list |-> [l EXCEPT !.nodes = [unlinked EXCEPT ![current] = FreeNode],
                                 !.shead = IF index > 0 THEN l.shead ELSE after,
                                 !.size = l.size - 1]]

\* A call on a container other than the hash table: c is its record.
Did(c) ==
    /\ last' = c
    /\ pc' = pc

\* CQueue_push: CLinkedList_add at the end of the list.
CQueue_push(element, allocOk) ==
    /\ pc = "run"
    /\ queue.size < MaxLen
    /\ LET r == ListAdd(queue, element, allocOk)
       IN  /\ queue' = r.list
           /\ Did(Call("push", NULL, element,
                       IF r.ret = "SUCCESS" THEN "SUCCESS" ELSE "ADD_FAILURE",
                       NULL, FALSE, queue.size, r.list.size, 0))

\* CQueue_pop: CLinkedList_get(list, 0), then CLinkedList_remove(list, 0).
CQueue_pop ==
    /\ pc = "run"
    /\ IF queue.size = 0
       THEN /\ queue' = queue
            /\ Did(Call("pop", NULL, NULL, "EMPTY", NULL, FALSE, 0, 0, 0))
       ELSE LET g == ListGet(queue, 0)
                r == ListRemove(queue, 0)
            IN  IF g.ret # "SUCCESS"
                THEN /\ queue' = queue
                     /\ Did(Call("pop", NULL, NULL, g.ret, NULL, FALSE,
                                 queue.size, queue.size, 0))
                ELSE /\ queue' = r.list
                     /\ Did(Call("pop", NULL, NULL,
                                 IF r.ret = "SUCCESS" THEN "SUCCESS"
                                 ELSE "REMOVE_FAILURE",
                                 IF r.ret = "SUCCESS" THEN g.value ELSE NULL,
                                 FALSE, queue.size, r.list.size, 0))

InitQueue == NoTable /\ queue = NewList /\ stack = NewStack
                /\ heap = NewHeap(0) /\ vector = NewVector(0) /\ ref = <<>>

\* ref beside a queue: a pushed element joins at the back, a pop that
\* handed out an element takes the front one away.
NextQueue ==
    /\ \/ \E e \in Elems, ok \in BOOLEAN : CQueue_push(e, ok)
       \/ CQueue_pop
    /\ ref' = IF last'.ret # "SUCCESS" THEN ref
              ELSE IF last'.op = "push" THEN Append(ref, last'.value)
              ELSE IF ref # <<>> THEN Tail(ref) ELSE ref
    /\ UNCHANGED <<hashvars, stack, heap, vector>>

SpecQueue == InitQueue /\ [][NextQueue]_vars

\* CStack_push: the new node becomes top.
MutStackPushedBelowTop(s, item, allocOk) ==
    IF ~allocOk THEN [ret |-> "ALLOC_FAILURE", stack |-> s]
    ELSE LET new_top == Malloc(s.nodes)
         IN  IF s.top = NULL
             THEN [ret |-> "SUCCESS",
                   stack |-> [s EXCEPT !.nodes = [s.nodes EXCEPT ![new_top] =
                                          [value |-> item, next |-> NULL, used |-> TRUE]],
                                       !.top = new_top, !.size = s.size + 1]]
             ELSE [ret |-> "SUCCESS",
                   stack |-> [s EXCEPT !.nodes = [s.nodes EXCEPT
                                          ![new_top] = [value |-> item,
                                                        next |-> s.nodes[s.top].next,
                                                        used |-> TRUE],
                                          ![s.top].next = new_top],
                                       !.size = s.size + 1]]
StackPushed(s, item, allocOk) ==
    IF ~allocOk THEN [ret |-> "ALLOC_FAILURE", stack |-> s]
    ELSE LET new_top == Malloc(s.nodes)
         IN  [ret |-> "SUCCESS",
              stack |-> [s EXCEPT !.nodes = [s.nodes EXCEPT ![new_top] =
                                     [value |-> item, next |-> s.top, used |-> TRUE]],
                                  !.top = new_top, !.size = s.size + 1]]

CStack_push(item, allocOk) ==
    /\ pc = "run"
    /\ stack.size < MaxLen
    /\ LET r == StackPushed(stack, item, allocOk)
       IN  /\ stack' = r.stack
           /\ Did(Call("push", NULL, item, r.ret, NULL, FALSE,
                       stack.size, r.stack.size, 0))

\* CStack_pop: an empty stack gives an error (with code CSTACK_NULL_STACK);
\* otherwise top is unlinked and freed and its data handed out.
CStack_pop ==
    /\ pc = "run"
    /\ IF stack.size = 0
       THEN /\ stack' = stack
            /\ Did(Call("pop", NULL, NULL, "NULL_STACK", NULL, FALSE, 0, 0, 0))
       ELSE LET temp == stack.top
            IN  /\ stack' = [stack EXCEPT !.top = stack.nodes[temp].next,
                                          !.nodes = [stack.nodes EXCEPT
                                                       ![temp] = FreeNode],
                                          !.size = stack.size - 1]
                /\ Did(Call("pop", NULL, NULL, "SUCCESS", stack.nodes[temp].value,
                            FALSE, stack.size, stack.size - 1, 0))

InitStack == NoTable /\ queue = NewList /\ stack = NewStack
                /\ heap = NewHeap(0) /\ vector = NewVector(0) /\ ref = <<>>

\* ref beside a stack: a pushed element joins at the back, a pop that
\* handed out an element takes the back one away.
NextStack ==
    /\ \/ \E e \in Elems, ok \in BOOLEAN : CStack_push(e, ok)
       \/ CStack_pop
    /\ ref' = IF last'.ret # "SUCCESS" THEN ref
              ELSE IF last'.op = "push" THEN Append(ref, last'.value)
              ELSE IF ref # <<>> THEN SubSeq(ref, 1, Len(ref) - 1) ELSE ref
    /\ UNCHANGED <<hashvars, queue, heap, vector>>

SpecStack == InitStack /\ [][NextStack]_vars

\* ---------------------------------------------------------------- CHeap
HeapCaps == 0..MaxHeapInitCap

\* What a second free / realloc of a block already freed does to the
\* process (glibc's tcache check aborts it).
DoubleFreeOutcomes == {"SIGABRT"}

\* CHeap_heapify_up: the element at index climbs while it is smaller than
\* its parent.
RECURSIVE HeapifyUp(_, _)
HeapifyUp(data, index) ==
    IF index = 0 THEN data
    ELSE LET parent == (index - 1) \div 2
         IN  IF Cmp(data[index], data[parent]) >= 0 THEN data
             ELSE HeapifyUp([data EXCEPT ![index] = data[parent],
                                         ![parent] = data[index]], parent)

\* CHeap_heapify_down: the element at index sinks below the smaller of its
\* children while one of them is smaller than it.
RECURSIVE MutHeapifyDownLeftOnly(_, _, _)
MutHeapifyDownLeftOnly(data, sz, index) ==
    IF index * 2 + 1 >= sz THEN data
    ELSE LET left == index * 2 + 1
             smallest == IF Cmp(data[left], data[index]) < 0 THEN left ELSE index
         IN  IF smallest = index THEN data
             ELSE MutHeapifyDownLeftOnly([data EXCEPT ![index] = data[smallest],
                                                      ![smallest] = data[index]],
                                         sz, smallest)
RECURSIVE HeapifyDown(_, _, _)
HeapifyDown(data, sz, index) ==
    IF index * 2 + 1 >= sz THEN data
    ELSE LET left == index * 2 + 1
             right == index * 2 + 2
             first == IF Cmp(data[left], data[index]) < 0 THEN left ELSE index
             smallest == IF right < sz /\ Cmp(data[right], data[first]) < 0
                         THEN right ELSE first
         IN  IF smallest = index THEN data
             ELSE HeapifyDown([data EXCEPT ![index] = data[smallest],
                                           ![smallest] = data[index]],
                              sz, smallest)

\* CHeap_resize on a live block: realloc to new_capacity slots.  A request
\* for 0 bytes frees the block and gives NULL, which the code takes for a
\* failure, keeping the pointer to the freed block.
HeapResize(h, new_capacity, allocOk) ==
    IF new_capacity = 0
        THEN [ret |-> "ALLOC_FAILURE", heap |-> [h EXCEPT !.freed = TRUE]]
    ELSE IF ~allocOk THEN [ret |-> "ALLOC_FAILURE", heap |-> h]
    ELSE [ret |-> "SUCCESS",
          heap |-> [h EXCEPT !.data = [i \in 0..(new_capacity - 1) |->
                                          IF i < h.capacity THEN h.data[i] ELSE NULL],
                             !.capacity = new_capacity]]

\* CHeap_insert: a full array is doubled first; the element goes behind
\* the last one and climbs.
CHeap_insert(element, allocOk) ==
    /\ pc = "run"
    /\ heap.size < MaxHeapLen
    /\ IF heap.size = heap.capacity /\ heap.freed
       THEN /\ \E o \in DoubleFreeOutcomes : pc' = o
            /\ last' = Call("insert", NULL, element, "NONE", NULL, FALSE,
                            heap.size, heap.size, 0)
            /\ heap' = heap
       ELSE LET need == heap.size = heap.capacity
                r == IF need THEN HeapResize(heap, heap.capacity * 2, allocOk)
                     ELSE [ret |-> "SUCCESS", heap |-> heap]
                h == r.heap
            IN  IF r.ret # "SUCCESS"
                THEN /\ heap' = h
                     /\ Did(Call("insert", NULL, element, "NOT_FOUND", NULL, FALSE,
                                 heap.size, heap.size, 0))
                ELSE /\ heap' = [h EXCEPT
                                   !.data = HeapifyUp([h.data EXCEPT ![h.size] = element],
                                                      h.size),
                                   !.size = h.size + 1]
                     /\ Did(Call("insert", NULL, element, "SUCCESS", NULL, need,
                                 heap.size, heap.size + 1, 0))

\* The heap after the body shared by CHeap_extract and CHeap_fextract: the
\* last element takes the place of the first and sinks.
HeapExtracted(h) ==
    [h EXCEPT !.data = HeapifyDown([h.data EXCEPT ![0] = h.data[h.size - 1]],
                                   h.size - 1, 0),
              !.size = h.size - 1]

\* CHeap_extract: an empty heap gives an error with code CHEAP_NOT_FOUND.
CHeap_extract ==
    /\ pc = "run"
    /\ IF heap.size = 0
       THEN /\ heap' = heap
            /\ Did(Call("extract", NULL, NULL, "NOT_FOUND", NULL, FALSE, 0, 0, 0))
       ELSE /\ heap' = HeapExtracted(heap)
            /\ Did(Call("extract", NULL, NULL, "SUCCESS", heap.data[0], FALSE,
                        heap.size, heap.size - 1, 0))

\* CHeap_fextract: an empty heap gives NULL.
CHeap_fextract ==
    /\ pc = "run"
    /\ IF heap.size = 0
       THEN /\ heap' = heap
            /\ Did(Call("fextract", NULL, NULL, "NULL", NULL, FALSE, 0, 0, 0))
       ELSE /\ heap' = HeapExtracted(heap)
            /\ Did(Call("fextract", NULL, NULL, "SUCCESS", heap.data[0], FALSE,
                        heap.size, heap.size - 1, 0))

InitHeap ==
    /\ NoTable /\ queue = NewList /\ stack = NewStack /\ ref = <<>>
    /\ vector = NewVector(0)
    /\ \E c \in HeapCaps : heap = NewHeap(c)

\* s without its first occurrence of e.
RemoveOne(s, e) ==
    IF \A i \in 1..Len(s) : s[i] # e THEN s
    ELSE LET i == CHOOSE i \in 1..Len(s) :
                      s[i] = e /\ \A j \in 1..(i - 1) : s[j] # e
         IN  SubSeq(s, 1, i - 1) \o SubSeq(s, i + 1, Len(s))

\* ref beside a heap: an inserted element joins, an extract that handed
\* out an element takes one occurrence of it away.
NextHeap ==
    /\ \/ \E e \in Elems, ok \in BOOLEAN : CHeap_insert(e, ok)
       \/ CHeap_extract
       \/ CHeap_fextract
    /\ ref' = IF last'.ret # "SUCCESS" THEN ref
              ELSE IF last'.op = "insert" THEN Append(ref, last'.value)
              ELSE RemoveOne(ref, last'.out)
    /\ UNCHANGED <<hashvars, queue, stack, vector>>

SpecHeap == InitHeap /\ [][NextHeap]_vars

\* ------------------------------------------------- CHeap_clear, CHeap_free
\* What reading through a pointer into a freed block and freeing the block
\* again does to the process: the destructor is handed whatever the block
\* holds by then, and free aborts or faults.
UseAfterFreeOutcomes == {"SIGABRT", "SIGSEGV"}

\* The loop of CHeap_clear from slot i on: destroy on data[i], i < size.
RECURSIVE DestroyHeap(_, _, _, _)
DestroyHeap(log, data, sz, i) ==
    IF i >= sz THEN log
    ELSE DestroyHeap(Destroy(log, data[i]), data, sz, i + 1)

\* The elements of the heap h.
HeapElems(h) == {h.data[i] : i \in 0..(h.size - 1)}

\* The body of CHeap_clear on a heap whose array is live: every element is
\* destroyed and the array freed; size, capacity and data are not written.
HeapCleared(h) == [h EXCEPT !.freed = TRUE]

\* A clear of a heap whose array was freed before: the loop reads size
\* slots of the freed block and hands them to destroy (any of the elements
\* that were there may still be), then the block is freed a second time.
ClearsFreed(op) ==
    /\ \E again \in SUBSET HeapElems(heap), o \in UseAfterFreeOutcomes :
           /\ destroyed' = [e \in Handles |->
                               IF e \in again THEN Destroy(destroyed, e)[e]
                               ELSE destroyed[e]]
           /\ pc' = o
    /\ heap' = heap
    /\ last' = Call(op, NULL, NULL, "NONE", NULL, FALSE, heap.size, heap.size, 0)

CHeap_clear ==
    /\ pc = "run"
    /\ IF heap.freed THEN ClearsFreed("clear")
       ELSE /\ destroyed' = DestroyHeap(destroyed, heap.data, heap.size, 0)
            /\ heap' = HeapCleared(heap)
            /\ pc' = pc
            /\ last' = Call("clear", NULL, NULL, "SUCCESS", NULL, FALSE,
                            heap.size, heap.size, 0)

\* CHeap_free: CHeap_clear(*heap), then free(*heap).
CHeap_free ==
    /\ pc = "run"
    /\ IF heap.freed THEN ClearsFreed("free")
       ELSE /\ destroyed' = DestroyHeap(destroyed, heap.data, heap.size, 0)
            /\ heap' = HeapCleared(heap)
            /\ pc' = "freed"
            /\ last' = Call("free", NULL, NULL, "SUCCESS", NULL, FALSE,
                            heap.size, heap.size, 0)

\* A caller that owns MaxElem elements, inserts only elements the heap does
\* not hold and that were not destroyed, and after a clear only clears or
\* frees the heap.
NextHeapLife ==
    /\ \/ \E e \in Elems, ok \in BOOLEAN :
              /\ ~heap.freed /\ e \notin HeapElems(heap) /\ destroyed[e] = 0
              /\ CHeap_insert(e, ok)
              /\ destroyed' = destroyed
       \/ ~heap.freed /\ CHeap_extract /\ destroyed' = destroyed
       \/ CHeap_clear
       \/ CHeap_free
    /\ UNCHANGED <<kind, entries, size, capacity, deleted_count, lastval,
                   nextHandle, twin, queue, stack, vector, ref>>

InitHeapLife ==
    /\ NoTable /\ queue = NewList /\ stack = NewStack /\ ref = <<>>
    /\ vector = NewVector(0)
    /\ \E c \in HeapCaps \ {0} : heap = NewHeap(c)

SpecHeapLife == InitHeapLife /\ [][NextHeapLife]_vars

\* ------------------------------------------------------------------ CVector
\* CVECTOR_DEFAULT_GROWTH_RATE.
CVECTOR_DEFAULT_GROWTH_RATE == 2

VecCaps == 0..MaxVecInitCap

\* What realloc does with a block that was given back before (undefined
\* behaviour): the allocator aborts the process, or hands out memory as if
\* the block were live.
ReallocFreedOutcomes == DoubleFreeOutcomes \cup {"run"}

\* realloc of the data array to new_capacity slots.
VecGrown(v, new_capacity) ==
    [v EXCEPT !.data = [i \in 0..(new_capacity - 1) |->
                           IF i < v.capacity THEN v.data[i] ELSE NULL],
              !.capacity = new_capacity,
              !.freed = FALSE]

\* alloc (data is never NULL here: CVector_clear is the only call that
\* sets it so): a full array is reallocated to CVECTOR_DEFAULT_GROWTH_RATE
\* times its capacity.  A request for 0 bytes frees the block and gives
\* NULL, which the code takes for a failure, keeping the pointer to the
\* freed block.
alloc(v, allocOk) ==
    IF v.size = v.capacity
    THEN LET new_size == v.capacity * CVECTOR_DEFAULT_GROWTH_RATE
         IN  IF new_size = 0
                 THEN [ret |-> "ALLOC_FAILURE", vector |-> [v EXCEPT !.freed = TRUE]]
             ELSE IF ~allocOk THEN [ret |-> "ALLOC_FAILURE", vector |-> v]
             ELSE [ret |-> "SUCCESS", vector |-> VecGrown(v, new_size)]
    ELSE IF v.size > v.capacity THEN [ret |-> "NULL_VECTOR", vector |-> v]
    ELSE [ret |-> "SUCCESS", vector |-> v]

\* CVector_add: the element goes behind the last one when alloc succeeds.
\* A full array whose block was freed is handed to realloc once more.
CVector_add(element, allocOk) ==
    /\ pc = "run"
    /\ vector.size < MaxVecLen
    /\ IF vector.size = vector.capacity /\ vector.freed
       THEN /\ \E o \in DoubleFreeOutcomes : pc' = o
            /\ last' = Call("add", NULL, element, "NONE", NULL, FALSE,
                            vector.size, vector.size, 0)
            /\ vector' = vector
       ELSE LET r == alloc(vector, allocOk)
                v == r.vector
            IN  IF r.ret # "SUCCESS"
                THEN /\ vector' = v
                     /\ Did(Call("add", NULL, element, r.ret, NULL, FALSE,
                                 vector.size, vector.size, 0))
                ELSE /\ vector' = [v EXCEPT !.data[v.size] = element,
                                            !.size = v.size + 1]
                     /\ Did(Call("add", NULL, element, "SUCCESS", NULL,
                                 v.capacity # vector.capacity,
                                 vector.size, vector.size + 1, 0))

\* CVector_del: the elements behind index move one place to the front and
\* the place of the last one is set to NULL.
CVector_del(index) ==
    /\ pc = "run"
    /\ IF index >= vector.size
       THEN /\ vector' = vector
            /\ Did(Call("del", index, NULL, "INDEX_OUT_OF_BOUNDS", NULL, FALSE,
                        vector.size, vector.size, 0))
       ELSE /\ vector' = [vector EXCEPT
                            !.data = [i \in DOMAIN vector.data |->
                                         IF i < index THEN vector.data[i]
                                         ELSE IF i < vector.size - 1
                                              THEN vector.data[i + 1]
                                         ELSE IF i = vector.size - 1 THEN NULL
                                         ELSE vector.data[i]],
                            !.size = vector.size - 1]
            /\ Did(Call("del", index, NULL, "SUCCESS", NULL, FALSE,
                        vector.size, vector.size - 1, 0))

\* CVector_get: the element at index, or an error when there is none.
CVector_get(index) ==
    /\ pc = "run"
    /\ vector' = vector
    /\ IF index >= vector.size
       THEN Did(Call("get", index, NULL, "INDEX_OUT_OF_BOUNDS", NULL, FALSE,
                     vector.size, vector.size, 0))
       ELSE Did(Call("get", index, NULL, "SUCCESS", vector.data[index], FALSE,
                     vector.size, vector.size, 0))

\* CVector_reserve: nothing to do when the capacity is already there, else
\* the array is reallocated to new_capacity slots.
CVector_reserve(new_capacity, allocOk) ==
    /\ pc = "run"
    /\ IF new_capacity <= vector.capacity
       THEN /\ vector' = vector
            /\ Did(Call("reserve", NULL, new_capacity, "SUCCESS", NULL, FALSE,
                        vector.size, vector.size, 0))
       ELSE IF vector.freed
       THEN \E o \in ReallocFreedOutcomes :
                /\ pc' = o
                /\ vector' = IF o = "run" THEN VecGrown(vector, new_capacity)
                             ELSE vector
                /\ last' = Call("reserve", NULL, new_capacity,
                                IF o = "run" THEN "SUCCESS" ELSE "NONE", NULL,
                                o = "run", vector.size, vector.size, 0)
       ELSE IF ~allocOk
       THEN /\ vector' = vector
            /\ Did(Call("reserve", NULL, new_capacity, "ALLOC_FAILURE", NULL,
                        FALSE, vector.size, vector.size, 0))
       ELSE /\ vector' = VecGrown(vector, new_capacity)
            /\ Did(Call("reserve", NULL, new_capacity, "SUCCESS", NULL, TRUE,
                        vector.size, vector.size, 0))

\* CVector_new with a reserve_capacity of 0..MaxVecInitCap.
InitVector ==
    /\ NoTable /\ queue = NewList /\ stack = NewStack /\ heap = NewHeap(0)
    /\ ref = <<>>
    /\ \E c \in VecCaps : vector = NewVector(c)

\* ref: the elements added and not deleted, in the order they were added.
NextVector ==
    /\ \/ \E e \in Elems, ok \in BOOLEAN : CVector_add(e, ok)
       \/ \E i \in 0..MaxVecLen : CVector_del(i)
       \/ \E i \in 0..MaxVecLen : CVector_get(i)
       \/ \E n \in 0..MaxReserve, ok \in BOOLEAN : CVector_reserve(n, ok)
    /\ ref' = IF last'.ret # "SUCCESS" THEN ref
              ELSE IF last'.op = "add" THEN Append(ref, last'.value)
              ELSE IF last'.op = "del"
                   THEN SubSeq(ref, 1, last'.key)
                            \o SubSeq(ref, last'.key + 2, Len(ref))
              ELSE ref
    /\ UNCHANGED <<hashvars, queue, stack, heap>>

SpecVector == InitVector /\ [][NextVector]_vars


TypeOK ==
    /\ kind \in {"map", "set", "none"}
    /\ capacity \in 0..MaxCap
    /\ size \in 0..MaxCap
    /\ DOMAIN entries = 0..(capacity - 1)
    /\ pc \in {"run", "hung", "freed"} \cup DivByZeroOutcomes
                \cup NullDerefOutcomes \cup DoubleFreeOutcomes
                \cup UseAfterFreeOutcomes
    /\ nextHandle \in 0..(MaxHandle + 1)
    /\ DOMAIN twin.entries = 0..(twin.capacity - 1)
    /\ queue.size \in 0..MaxLen
    /\ stack.size \in 0..MaxLen
    /\ heap.size \in 0..MaxHeapLen
    /\ heap.size <= heap.capacity
    /\ DOMAIN heap.data = 0..(heap.capacity - 1)
    /\ vector.size \in 0..MaxVecLen
    /\ DOMAIN vector.data = 0..(vector.capacity - 1)
    /\ Len(ref) <= MaxLen + MaxHeapLen

\* ================================================================ claims
HasTombstone == \E i \in DOMAIN entries : entries[i].key = DELETED
Stored(es, k) == \E i \in DOMAIN es : IsOccupied(es[i]) /\ Cmp(es[i].key, k) = 0
Get(k) == Lookup(entries, capacity, k)

\* C1: after every successful CHashMap_insert / CHashSet_add,
\* size / capacity <= 0.75 (4 * size <= 3 * capacity).
C1_LoadFactorBound ==
    (last.op \in {"insert", "add"} /\ last.ret = "SUCCESS")
        => ThresholdDen * size <= ThresholdNum * capacity

\* C2: no two Occupied slots of the table hold keys that compare equal.
C2_UniqueKeys ==
    \A i, j \in DOMAIN entries :
        (i # j /\ IsOccupied(entries[i]) /\ IsOccupied(entries[j]))
            => Cmp(entries[i].key, entries[j].key) # 0

\* C3: right after a successful CHashMap_insert(k, v), from whatever map
\* state it was issued in, CHashMap_get(k) returns v.
C3_InsertThenGet ==
    (last.op = "insert" /\ last.ret = "SUCCESS")
        => (Get(last.key).ret = "SUCCESS" /\ Get(last.key).value = last.value)

\* C3 witness: a successful insert into a map that holds a Tombstone and
\* another entry.
C3_Witness ==
    /\ last.op = "insert" /\ last.ret = "SUCCESS"
    /\ HasTombstone /\ size >= 2

\* C4 (checked with history, SpecHist): as long as k is neither removed nor
\* written again after CHashMap_insert(k, v), CHashMap_get(k) returns v.
C4_GetReturnsLastInserted ==
    (kind = "map" /\ pc = "run")
        => \A k \in Keys :
               lastval[k] \in Values
                   => (Get(k).ret = "SUCCESS" /\ Get(k).value = lastval[k])

\* C5 (checked for callers that only insert and look up, SpecIns): a resize
\* leaves size as it was, and every key inserted so far is retrievable, in
\* a map with the value last written for it.
C5_ResizeConserves ==
    /\ last.resized => last.szPost = last.szPre
    /\ \A k \in Keys :
           lastval[k] # NoVal
               => /\ Get(k).ret = "SUCCESS"
                  /\ kind = "map" => Get(k).value = lastval[k]

\* C5 witness: an insert / add that resized to the largest capacity of the
\* model and left three keys stored.
C5_Witness ==
    /\ last.op \in {"insert", "add"} /\ last.ret = "SUCCESS"
    /\ last.resized /\ size >= 3

\* C6 (checked with history, SpecHist): from a successful remove of k until
\* k is inserted again, get / contains of k yields NOT_FOUND.
C6_RemovedStaysAbsent ==
    pc = "run"
        => \A k \in Keys : lastval[k] = Removed => Get(k).ret = "NOT_FOUND"

\* C7: a successful CHashMap_insert of a key that some Occupied slot holds
\* with a different value leaves size unchanged, and CHashMap_get of the key
\* then returns the new value.
C7_DuplicateInsertUpdates ==
    [][(/\ last'.op = "insert" /\ last'.ret = "SUCCESS"
        /\ \E i \in DOMAIN entries :
              /\ IsOccupied(entries[i])
              /\ Cmp(entries[i].key, last'.key) = 0
              /\ entries[i].value # last'.value)
          => (/\ size' = size
              /\ Lookup(entries', capacity', last'.key).ret = "SUCCESS"
              /\ Lookup(entries', capacity', last'.key).value = last'.value)]_vars

\* C8: every call terminates, having examined at most capacity slots.
C8_ProbesBounded == pc # "hung" /\ last.probes <= capacity

\* C9: after clear, size is 0 and a lookup of every key that was stored
\* when clear was called completes with NOT_FOUND.
C9_ClearResets ==
    [][last'.op = "clear"
          => (/\ size' = 0
              /\ \A k \in Keys :
                    Stored(entries, k)
                        => Lookup(entries', capacity', k).ret = "NOT_FOUND")]_vars

\* C10: an insert / add that returns ALLOC_FAILURE (calloc failed in resize)
\* leaves the slot array, size, capacity and deleted_count as they were.
C10_AllocFailureLeavesTable ==
    [][last'.ret = "ALLOC_FAILURE"
          => UNCHANGED <<entries, size, capacity, deleted_count>>]_vars

\* C10 witness: an insert / add into a non-empty table has returned
\* ALLOC_FAILURE.
C10_Witness ==
    /\ last.op \in {"insert", "add"} /\ last.ret = "ALLOC_FAILURE"
    /\ size >= 1

\* ------------------------------------------------------------- C11 .. C20
Held(h) ==
    \E i \in DOMAIN entries :
        IsOccupied(entries[i]) /\ (entries[i].kh = h \/ entries[i].vh = h)

\* C11 (checked with pointer identities tracked, SpecOwn): every key and
\* value pointer the table stored in a slot is destroyed exactly once, by
\* the operation that drops it: a pointer held by an Occupied slot has not
\* been destroyed, a pointer that was stored and is no longer held (value
\* overwritten by insert or update, entry removed, table cleared or freed)
\* has been destroyed once, and nothing else has been destroyed.
C11_DestroyedExactlyOnce ==
    \A h \in Handles :
        IF h >= nextHandle THEN destroyed[h] = 0
        ELSE IF Held(h) THEN destroyed[h] = 0
        ELSE destroyed[h] = 1

\* C11 witness: a table freed while it held entries, after a value had
\* already been dropped by an earlier operation.
C11_Witness ==
    /\ pc = "freed" /\ last.szPre >= 1
    /\ nextHandle >= 4

\* C12: CHashMap_update and remove (of map and set) of a key that no
\* Occupied slot holds return NOT_FOUND and leave the table unchanged.
C12_AbsentKeyNotFound ==
    [][(last'.op \in {"update", "remove"} /\ ~last'.nullarg
            /\ ~Stored(entries, last'.key))
          => (last'.ret = "NOT_FOUND" /\ pc' = "run" /\ UNCHANGED table)]_vars

\* C13: CHashMap_update(k, v') of a key that an Occupied slot holds returns
\* SUCCESS, leaves size, capacity and the key of every slot as they were,
\* and CHashMap_get(k) returns v' afterwards.
C13_UpdatePresent ==
    [][(last'.op = "update" /\ ~last'.nullarg /\ Stored(entries, last'.key))
          => /\ last'.ret = "SUCCESS" /\ pc' = "run"
             /\ size' = size /\ capacity' = capacity
             /\ \A i \in DOMAIN entries : entries'[i].key = entries[i].key
             /\ Lookup(entries', capacity', last'.key).ret = "SUCCESS"
             /\ Lookup(entries', capacity', last'.key).value = last'.value]_vars

\* C13 witness: a successful update that had to probe past another slot in
\* a map holding a Tombstone.
C13_Witness ==
    /\ last.op = "update" /\ last.ret = "SUCCESS"
    /\ last.probes >= 2 /\ HasTombstone
    /\ Get(last.key).value = last.value

\* C14: CHashSet_add of a key that an Occupied slot holds returns SUCCESS
\* and changes nothing: size and every slot are as before.  Stated for the
\* calls that do not resize (a resize moves the slots to a new array).
C14_AddPresentNoOp ==
    [][(last'.op = "add" /\ ~last'.nullarg /\ Stored(entries, last'.key)
            /\ ~OverThreshold(size, capacity))
          => (last'.ret = "SUCCESS" /\ size' = size /\ entries' = entries)]_vars

\* C15: remove (of map and set) of a key that an Occupied slot holds returns
\* SUCCESS, takes 1 off size, and turns exactly one slot, an Occupied slot
\* with that key, into a Tombstone; every other slot is as before.
C15_RemovePresent ==
    [][(last'.op = "remove" /\ ~last'.nullarg /\ Stored(entries, last'.key))
          => /\ last'.ret = "SUCCESS" /\ pc' = "run"
             /\ size' = size - 1 /\ capacity' = capacity
             /\ \E i \in DOMAIN entries :
                   /\ IsOccupied(entries[i])
                   /\ Cmp(entries[i].key, last'.key) = 0
                   /\ entries'[i].key = DELETED
                   /\ \A j \in DOMAIN entries \ {i} : entries'[j] = entries[j]]_vars

\* C15 witness: a successful remove that left a second Tombstone behind.
C15_Witness ==
    /\ last.op = "remove" /\ last.ret = "SUCCESS"
    /\ Cardinality({i \in DOMAIN entries : entries[i].key = DELETED}) >= 2

\* C16 (checked with destructor calls tracked, SpecOwn): CHashMap_get and
\* CHashSet_contains change no field and no slot of the table and call no
\* destructor.
C16_LookupsReadOnly ==
    [][(last'.op \in {"get", "contains"})
          => (UNCHANGED table /\ destroyed' = destroyed)]_vars

\* C16 witness: a successful lookup, two slots examined, in a table whose
\* entries carry tracked pointers.
C16_Witness ==
    /\ last.op \in {"get", "contains"} /\ last.ret = "SUCCESS"
    /\ last.probes >= 2 /\ nextHandle >= 3

\* C17 (checked for callers that may pass NULL, SpecArgs): a call given a
\* NULL table, key or value returns a dedicated null-argument outcome,
\* leaves the table untouched and the process alive.
NullArgOutcomes == {"NULL_VAL", "NULL_MAP", "NULL_SET", "NULL_KEY", "NULL"}

C17_NullArgsRejected ==
    [][last'.nullarg
          => (last'.ret \in NullArgOutcomes /\ pc' = pc /\ UNCHANGED table)]_vars

\* C18 (checked in the scenario, SpecScenario): in a table of capacity 4 the
\* insert of the fourth of the keys 1, 2, 3, 4 resizes the table to
\* capacity 6, and afterwards size is 4 and all four keys are retrievable.
C18_FourthInsertResizes ==
    (last.op \in {"insert", "add"} /\ last.ret = "SUCCESS"
        /\ last.key = ScenarioCap)
        => /\ last.resized
           /\ capacity = NewCapacity(ScenarioCap)
           /\ size = Cardinality(ScenarioKeys)
           /\ \A k \in ScenarioKeys : Get(k).ret = "SUCCESS"

\* C19 (checked with history, SpecHist): when b has just been inserted, a
\* was inserted and then removed before that, and a and b have the same
\* home slot, get(b) returns b's own value and get(a) returns NOT_FOUND.
C19_TombstoneReuse ==
    \A a \in Keys :
        (kind = "map" /\ last.op = "insert" /\ last.ret = "SUCCESS"
            /\ a # last.key /\ lastval[a] = Removed
            /\ Hash(a) % capacity = Hash(last.key) % capacity)
          => /\ Get(last.key).ret = "SUCCESS"
             /\ Get(last.key).value = last.value
             /\ Get(a).ret = "NOT_FOUND"

\* C20: size is the number of Occupied slots, and 0 <= size <= capacity.
C20_SizeCountsOccupied ==
    /\ size = Cardinality({i \in DOMAIN entries : IsOccupied(entries[i])})
    /\ 0 <= size /\ size <= capacity

\* C20 witness: a resized table that holds two entries and a Tombstone.
C20_Witness ==
    /\ size = 2 /\ HasTombstone /\ capacity > MaxInitCap

\* ------------------------------------------------------------- C21 .. C30
Tombstones(es) == {i \in DOMAIN es : es[i].key = DELETED}
Occupieds(es) == {i \in DOMAIN es : IsOccupied(es[i])}

SetStepAgrees ==
    [][(kind = "set" /\ last'.op \in {"add", "contains", "remove"}
           /\ pc' \in {"run", "hung"})
          => LET t == [entries |-> entries, size |-> size, capacity |-> capacity,
                       deleted_count |-> deleted_count, pc |-> pc, ret |-> last.ret]
                 u == SetStep(t, last'.op, last'.key, last'.ret # "ALLOC_FAILURE")
             IN  /\ u.entries = entries' /\ u.size = size'
                 /\ u.capacity = capacity' /\ u.deleted_count = deleted_count'
                 /\ u.pc = pc' /\ u.ret = last'.ret]_vars

\* C22: CHashSet_add of a key that an Occupied slot holds returns the error
\* code CHASHSET_NOT_FOUND, not success.
C22_AddPresentIsError ==
    [][(last'.op = "add" /\ ~last'.nullarg /\ Stored(entries, last'.key)
            /\ last'.ret # "ALLOC_FAILURE")
          => last'.ret = "NOT_FOUND"]_vars

\* The elements of the list l from node n on, in list order.
RECURSIVE ListElems(_, _)
ListElems(nodes, n) ==
    IF n = NULL THEN <<>> ELSE <<nodes[n].value>> \o ListElems(nodes, nodes[n].next)

HeapCount(h, e) == Cardinality({i \in 0..(h.size - 1) : h.data[i] = e})
SeqCount(s, e) == Cardinality({i \in 1..Len(s) : s[i] = e})

ProbePath(from, to, cap) ==
    IF from <= to THEN from..to ELSE (from..(cap - 1)) \cup (0..to)

\* C26: for every Occupied slot i holding key k, no slot on the cyclic probe
\* path from Hash(k) % capacity up to i is Empty, and a lookup of k finds an
\* equal key.
C26_ProbeChain ==
    \A i \in Occupieds(entries) :
        /\ \A j \in ProbePath(Hash(entries[i].key) % capacity, i, capacity) :
               entries[j].key # NULL
        /\ Get(entries[i].key).ret = "SUCCESS"

\* C26 witness: an Occupied slot away from its home slot with a Tombstone
\* on its probe path.
C26_Witness ==
    \E i \in Occupieds(entries) :
        /\ Hash(entries[i].key) % capacity # i
        /\ entries[Hash(entries[i].key) % capacity].key = DELETED

\* The table on which a call of insert / add made now would probe: the
\* table after the resize the load-factor check asks for, if any.
Probed ==
    IF ~OverThreshold(size, capacity)
    THEN [entries |-> entries, capacity |-> capacity]
    ELSE IF kind = "map"
    THEN LET r == MapResize(entries, size, capacity, TRUE)
         IN  [entries |-> r.entries, capacity |-> r.capacity]
    ELSE LET r == SetResize(entries, size, capacity, deleted_count, TRUE)
         IN  [entries |-> r.entries, capacity |-> r.capacity]

\* C27: in every state with capacity > 0, the probe loop of insert / add,
\* for any key, stops within capacity steps.
C27_InsertProbeEnds ==
    (pc = "run" /\ capacity > 0)
        => \A k \in Keys :
               LET t == Probed
                   s == InsertScan(t.entries, t.capacity, k,
                                   Hash(k) % t.capacity, 0)
               IN  ~s.hang /\ s.probes <= t.capacity

\* C27 witness: a table of two or more slots, all of them Occupied.
C27_Witness ==
    /\ pc = "run" /\ capacity >= 2
    /\ Occupieds(entries) = DOMAIN entries

\* C28 (checked on tables of capacity 1 .. MaxInitCap and 4, SpecLoad): a
\* successful insert / add has resized, once and to __ceil(capacity * 1.5),
\* exactly when 4 * size > 3 * capacity held on entry, whether the key was
\* present or not; an insert / add fails for lack of memory only then.
C28_ResizeExactlyAboveThreshold ==
    [][(last'.op \in {"insert", "add"} /\ ~last'.nullarg)
          => /\ last'.ret \in {"SUCCESS", "ALLOC_FAILURE"}
             /\ last'.ret = "ALLOC_FAILURE"
                    => (4 * size > 3 * capacity /\ capacity' = capacity)
             /\ last'.ret = "SUCCESS"
                    => /\ last'.resized <=> (4 * size > 3 * capacity)
                       /\ capacity' = IF 4 * size > 3 * capacity
                                      THEN NewCapacity(capacity)
                                      ELSE capacity]_vars

\* C28 witness: a successful insert / add at a load factor of exactly 3/4,
\* which did not resize.
C28_Witness ==
    /\ last.op \in {"insert", "add"} /\ last.ret = "SUCCESS"
    /\ 4 * last.szPre = 3 * capacity /\ ~last.resized

\* The number of slots of es that hold exactly the entry e.
Copies(es, e) == Cardinality({i \in DOMAIN es : es[i] = e})

\* C29: a successful resize of the table of any reachable state leaves size
\* as it was, carries every Occupied entry into the new array exactly once,
\* leaves only Empty and Occupied slots and, for the set, sets
\* deleted_count to 0.
C29_ResizeCarriesEntries ==
    capacity > 0 =>
        LET r == IF kind = "map"
                 THEN MapResize(entries, size, capacity, TRUE)
                 ELSE SetResize(entries, size, capacity, deleted_count, TRUE)
        IN  /\ r.ret = "SUCCESS"
            /\ r.size = size
            /\ r.capacity = NewCapacity(capacity)
            /\ Tombstones(r.entries) = {}
            /\ Cardinality(Occupieds(r.entries)) = Cardinality(Occupieds(entries))
            /\ \A i \in Occupieds(entries) :
                   Copies(r.entries, entries[i]) = Copies(entries, entries[i])
            /\ kind = "set" => r.deleted_count = 0

\* C29 witness: a table that holds a Tombstone and two entries, one of them
\* away from its home slot.
C29_Witness ==
    /\ pc = "run" /\ size >= 2
    /\ Cardinality(Tombstones(entries)) >= 1
    /\ \E i \in Occupieds(entries) : Hash(entries[i].key) % capacity # i

\* C30: in a set, deleted_count is the number of Tombstone slots.
C30_DeletedCountsTombstones ==
    kind = "set" => deleted_count = Cardinality(Tombstones(entries))

\* ------------------------------------------------------------ C31 .. C38
\* The slot at which a probe for key from Hash(key) % cap first meets a
\* slot that is Empty, a Tombstone or Occupied with an equal key; 0 - 1 when
\* no slot is one of these.
StopAt(es, cap, key) ==
    LET home == Hash(key) % cap
        Stops(d) == LET e == es[(home + d) % cap]
                    IN  ~IsOccupied(e) \/ Cmp(e.key, key) = 0
    IN  IF \E d \in 0..(cap - 1) : Stops(d)
        THEN (home + (CHOOSE d \in 0..(cap - 1) :
                         Stops(d) /\ \A c \in 0..(d - 1) : ~Stops(c))) % cap
        ELSE 0 - 1

SlotState(e) ==
    IF e.key = NULL THEN "Empty"
    ELSE IF e.key = DELETED THEN "Tombstone" ELSE "Occupied"

\* A step that leaves the table its slot array: no resize, no clear, no
\* free.
SameArray ==
    /\ last'.op \notin {"clear", "free"}
    /\ ~last'.resized
    /\ DOMAIN entries' = DOMAIN entries

\* The pairs <<from, to>> of states that some slot moved between in this
\* step.
Moves ==
    {<<SlotState(entries[i]), SlotState(entries'[i])>> : i \in DOMAIN entries}
        \ {<<st, st>> : st \in {"Empty", "Occupied", "Tombstone"}}

\* C32 as stated: within one slot array a slot only moves Empty ->
\* Occupied and Occupied -> Tombstone.
C32_SlotTransitions ==
    [][SameArray
          => Moves \subseteq {<<"Empty", "Occupied">>, <<"Occupied", "Tombstone">>}]_vars

\* C32 as amended: within one slot array a slot only moves Empty ->
\* Occupied, Occupied -> Tombstone and Tombstone -> Occupied (insert / add
\* takes a Tombstone it stops at); no slot goes back to Empty, and none goes
\* from Empty directly to Tombstone.
C32_SlotTransitionsWithReuse ==
    [][SameArray
          => Moves \subseteq {<<"Empty", "Occupied">>, <<"Occupied", "Tombstone">>,
                              <<"Tombstone", "Occupied">>}]_vars

\* C32 witness: a set whose slot array has had a Tombstone taken by an add
\* (deleted_count, which only remove and resize write, counts more
\* Tombstones than the array holds).
C32_Witness ==
    /\ kind = "set" /\ pc = "run"
    /\ last.op = "add" /\ last.ret = "SUCCESS" /\ ~last.resized
    /\ deleted_count > Cardinality(Tombstones(entries))

\* C33 (checked with pointer identities tracked, SpecOwn): a successful
\* CHashMap_insert that finds an Occupied slot with an equal key calls
\* destroyValue once on the value that slot held, and afterwards the slot
\* holds the key pointer and the value pointer passed in the call; size is
\* unchanged.
C33_InsertEqualKeyOverwrites ==
    [][(last'.op = "insert" /\ ~last'.nullarg /\ last'.ret = "SUCCESS"
           /\ IsOccupied(Probed.entries[StopAt(Probed.entries, Probed.capacity,
                                               last'.key)]))
          => LET j == StopAt(Probed.entries, Probed.capacity, last'.key)
                 old == Probed.entries[j]
             IN  /\ destroyed' = [destroyed EXCEPT ![old.vh] = @ + 1]
                 /\ entries'[j].vh = Fresh(0) /\ entries'[j].value = last'.value
                 /\ entries'[j].kh = Fresh(1) /\ entries'[j].key = last'.key
                 /\ size' = size]_vars

\* C34: an insert / add that follows a successful clear returns SUCCESS,
\* after which the key is found by a lookup and size is 1.
C34_UsableAfterClear ==
    [][(last.op = "clear" /\ last.ret = "SUCCESS"
           /\ last'.op \in {"insert", "add"} /\ ~last'.nullarg)
          => /\ pc' = "run"
             /\ last'.ret = "SUCCESS"
             /\ size' = 1
             /\ Lookup(entries', capacity', last'.key).ret = "SUCCESS"]_vars

\* C35 (SpecGrow): a resize that succeeds sets capacity to ceil(1.5 *
\* capacity), which is larger than the old capacity whenever that is 1 or
\* more (1 -> 2, 2 -> 3, 3 -> 5, 4 -> 6); no call other than clear makes
\* capacity smaller.
C35_ResizeGrows ==
    [][/\ (last'.resized /\ last'.ret = "SUCCESS")
             => /\ 2 * capacity' >= 3 * capacity
                /\ 2 * capacity' < 3 * capacity + 2
                /\ capacity >= 1 => capacity' > capacity
                /\ capacity = 1 => capacity' = 2
                /\ capacity = 2 => capacity' = 3
                /\ capacity = 3 => capacity' = 5
                /\ capacity = 4 => capacity' = 6
       /\ last'.op # "clear" => capacity' >= capacity]_vars

\* C35 witness: a table of three slots, holding two or more entries, was
\* resized to five.
C35_Witness ==
    /\ last.op = "resize" /\ last.ret = "SUCCESS"
    /\ capacity = 5 /\ size >= 2

\* C36 (SpecFactor): CHashMap_load_factor / CHashSet_load_factor returns
\* 0.0 for a NULL table and for a table of capacity 0, and size / capacity
\* otherwise.
C36_LoadFactorValue ==
    [][(last'.op = "load_factor")
          => IF last'.nullarg \/ capacity = 0
             THEN last'.out.class = "finite" /\ last'.out.num = 0
             ELSE /\ last'.out.class = "finite"
                  /\ last'.out.num * capacity = size * last'.out.den]_vars

\* C37 (SpecHeapLife): after CHeap_clear the heap is empty (size is 0), and
\* no element is handed to the destructor a second time by a later
\* CHeap_clear or CHeap_free.
C37_ClearEmptiesHeap ==
    [][/\ (last'.op = "clear" /\ last'.ret = "SUCCESS") => heap'.size = 0
       /\ \A e \in Elems : destroyed'[e] <= 1]_vars

\* C38: for every initial reserve_capacity >= 0 and any sequence of
\* CVector_add, CVector_del and CVector_reserve, after every operation the
\* vector is usable (no call has killed the process), data is an allocated
\* array of capacity slots, size <= capacity, and the elements added and not
\* deleted are at indexes 0..size-1 in the order they were added.
C38_VectorWithinCapacity ==
    /\ pc = "run"
    /\ ~vector.freed
    /\ vector.size <= vector.capacity
    /\ vector.size = Len(ref)
    /\ \A i \in 0..(vector.size - 1) : vector.data[i] = ref[i + 1]

====
